---- MODULE Spec2Model ----
(***************************************************************************)
(* Model of script/build_relation_graph.py: main() reads the item and      *)
(* trader databases, build_relation_graph() assembles the node table in    *)
(* four passes (item nodes, item edges, traders, reverse edges) and main() *)
(* writes the graph.  A second specification, DedupSpec, models           *)
(* script/remove_duplicates.py (remove_duplicates_from_database), and a    *)
(* third, NamesSpec, its remove_duplicates_from_names as main() calls it.  *)
(*                                                                         *)
(* Python dicts are records whose DOMAIN is the set of keys present, so    *)
(* `"k" in d` is "k" \in DOMAIN d.  The node table `nodes` is an           *)
(* insertion-ordered dict keyed by node name; it is the sequence of its    *)
(* values in insertion order (each value carries its key as .name).        *)
(***************************************************************************)
EXTENDS Integers, Sequences, FiniteSets, TLC

(***************************************************************************)
(* Bounds of the input space.                                              *)
(***************************************************************************)
\* records in the two database files together
MaxRecords == 2

(***************************************************************************)
(* Python helpers.                                                         *)
(***************************************************************************)
\* the empty dict / no keyword arguments
Empty == <<>>

\* d.get(k) is truthy, for a string-valued key
Truthy(d, k) == k \in DOMAIN d /\ d[k] /= ""

\* d.get(k) is truthy, for a Boolean-valued key
TruthyFlag(d, k) == k \in DOMAIN d /\ d[k] = TRUE

\* keyword argument kw=d.get(k): present unless d.get(k) is None
Arg(d, k, kw) == IF k \in DOMAIN d THEN kw :> d[k] ELSE Empty

\* sep.join(strs)
RECURSIVE Join(_, _)
Join(strs, sep) ==
    IF Len(strs) = 0 THEN ""
    ELSE IF Len(strs) = 1 THEN strs[1]
    ELSE strs[1] \o sep \o Join(Tail(strs), sep)

\* concatenation of a sequence of sequences (edges.append inside nested loops)
RECURSIVE Flatten(_)
Flatten(seqs) == IF Len(seqs) = 0 THEN <<>> ELSE Head(seqs) \o Flatten(Tail(seqs))

(***************************************************************************)
(* create_edge: quantity is kept unless None; dependency and the levels    *)
(* are kept only when truthy.                                              *)
(***************************************************************************)
create_edge(name, direction, relation, kwargs) ==
    [name |-> name, direction |-> direction, relation |-> relation]
    @@ (IF "quantity" \in DOMAIN kwargs THEN [quantity |-> kwargs.quantity] ELSE Empty)
    @@ (IF "dependency" \in DOMAIN kwargs /\ Len(kwargs.dependency) > 0
        THEN [dependency |-> kwargs.dependency] ELSE Empty)
    @@ (IF Truthy(kwargs, "input_level") THEN [input_level |-> kwargs.input_level] ELSE Empty)
    @@ (IF Truthy(kwargs, "output_level") THEN [output_level |-> kwargs.output_level] ELSE Empty)

get_base_item_name(item_data) == IF "name" \in DOMAIN item_data THEN item_data.name ELSE ""

\* mutant: the material's name is not tested
material_edges_name_unchecked(materials, direction, relation, dependency, levels) ==
    [k \in 1..Len(materials) |->
        create_edge(IF "item" \in DOMAIN materials[k] THEN materials[k].item ELSE "",
                    direction, relation,
                    Arg(materials[k], "quantity", "quantity")
                    @@ [dependency |-> dependency] @@ levels)]

\* the inner loop shared by the synthesizers: one edge per material line that
\* has a truthy "item"; `dependency` is None (<<>>) or a list
material_edges(materials, direction, relation, dependency, levels) ==
    LET named == SelectSeq(materials, LAMBDA m : Truthy(m, "item"))
    IN  [k \in 1..Len(named) |->
            create_edge(named[k].item, direction, relation,
                        Arg(named[k], "quantity", "quantity")
                        @@ [dependency |-> dependency] @@ levels)]

(***************************************************************************)
(* process_crafting                                                        *)
(***************************************************************************)
crafting_dependency(craft_recipe) ==
    (IF "workshop" \in DOMAIN craft_recipe
     THEN <<[type |-> "workshop", name |-> craft_recipe.workshop]>> ELSE <<>>)
    \o (IF TruthyFlag(craft_recipe, "blueprint_locked")
        THEN <<[type |-> "blueprint", name |-> "required"]>> ELSE <<>>)
    \o (IF Truthy(craft_recipe, "result_level")
        THEN <<[type |-> "result_level", name |-> craft_recipe.result_level]>> ELSE <<>>)

process_crafting(item_data, item_name) ==
    IF "crafting" \notin DOMAIN item_data THEN <<>>
    ELSE Flatten([r \in 1..Len(item_data.crafting) |->
            LET craft_recipe == item_data.crafting[r]
            IN  IF "recipe" \in DOMAIN craft_recipe
                THEN material_edges(craft_recipe.recipe, "in", "craft_from",
                                    crafting_dependency(craft_recipe),
                                    Arg(craft_recipe, "result_level", "output_level"))
                ELSE <<>>])

(***************************************************************************)
(* process_upgrades                                                        *)
(***************************************************************************)
upgrade_has_levels(upgrade) == Truthy(upgrade, "input_level") /\ Truthy(upgrade, "output_level")

\* mutant: the perks tag is appended to the list the material edges share
upgrade_dependency_with_perks(upgrade) ==
    (IF "workshop" \in DOMAIN upgrade
     THEN <<[type |-> "workshop", name |-> upgrade.workshop]>> ELSE <<>>)
    \o (IF TruthyFlag(upgrade, "blueprint_locked")
        THEN <<[type |-> "blueprint", name |-> "required"]>> ELSE <<>>)
    \o (IF upgrade_has_levels(upgrade)
        THEN <<[type |-> "upgrade_level",
                name |-> upgrade.input_level \o " -> " \o upgrade.output_level]>>
        ELSE <<>>)
    \o (IF upgrade_has_levels(upgrade) /\ "upgrade_perks" \in DOMAIN upgrade
        THEN <<[type |-> "perks", name |-> Join(upgrade.upgrade_perks, ", ")]>>
        ELSE <<>>)

upgrade_dependency(upgrade) ==
    (IF "workshop" \in DOMAIN upgrade
     THEN <<[type |-> "workshop", name |-> upgrade.workshop]>> ELSE <<>>)
    \o (IF TruthyFlag(upgrade, "blueprint_locked")
        THEN <<[type |-> "blueprint", name |-> "required"]>> ELSE <<>>)
    \o (IF upgrade_has_levels(upgrade)
        THEN <<[type |-> "upgrade_level",
                name |-> upgrade.input_level \o " -> " \o upgrade.output_level]>>
        ELSE <<>>)

upgrade_levels(upgrade) ==
    Arg(upgrade, "input_level", "input_level") @@ Arg(upgrade, "output_level", "output_level")

upgrade_self_edge(upgrade, item_name) ==
    LET edge_dep == upgrade_dependency(upgrade)
                    \o (IF "upgrade_perks" \in DOMAIN upgrade
                        THEN <<[type |-> "perks", name |-> Join(upgrade.upgrade_perks, ", ")]>>
                        ELSE <<>>)
    IN  create_edge(item_name, "out", "upgrade_to",
                    [dependency |-> edge_dep] @@ upgrade_levels(upgrade))

process_upgrades(item_data, item_name) ==
    IF "upgrades" \notin DOMAIN item_data THEN <<>>
    ELSE Flatten([u \in 1..Len(item_data.upgrades) |->
            LET upgrade == item_data.upgrades[u]
            IN  (IF "recipe" \in DOMAIN upgrade
                 THEN material_edges(upgrade.recipe, "in", "upgrade_from",
                                     upgrade_dependency(upgrade), upgrade_levels(upgrade))
                 ELSE <<>>)
                \o (IF upgrade_has_levels(upgrade)
                    THEN <<upgrade_self_edge(upgrade, item_name)>> ELSE <<>>)])

(***************************************************************************)
(* process_repairs                                                         *)
(***************************************************************************)
repair_dependency(repair) ==
    (IF "durability" \in DOMAIN repair
     THEN <<[type |-> "durability", name |-> "+" \o ToString(repair.durability)]>> ELSE <<>>)
    \o (IF Truthy(repair, "item_name")
        THEN <<[type |-> "repair_level", name |-> repair.item_name]>> ELSE <<>>)

process_repairs(item_data, item_name) ==
    IF "repairs" \notin DOMAIN item_data THEN <<>>
    ELSE Flatten([r \in 1..Len(item_data.repairs) |->
            LET repair == item_data.repairs[r]
            IN  IF "recipe" \in DOMAIN repair
                THEN material_edges(repair.recipe, "in", "repair_from",
                                    repair_dependency(repair),
                                    Arg(repair, "item_name", "input_level"))
                ELSE <<>>])

(***************************************************************************)
(* process_recycling (recycling, then salvaging)                           *)
(***************************************************************************)
breakdown_edges(entries, relation, tag) ==
    Flatten([r \in 1..Len(entries) |->
        LET entry == entries[r]
            dependency == IF Truthy(entry, "input")
                          THEN <<[type |-> tag, name |-> entry.input]>> ELSE <<>>
        IN  IF "materials" \in DOMAIN entry
            THEN material_edges(entry.materials, "out", relation, dependency,
                                Arg(entry, "input", "input_level"))
            ELSE <<>>])

process_recycling(item_data, item_name) ==
    IF "recycling" \notin DOMAIN item_data THEN <<>>
    ELSE LET recycling == item_data.recycling
         IN  (IF "recycling" \in DOMAIN recycling
              THEN breakdown_edges(recycling.recycling, "recycle_to", "recycle_level")
              ELSE <<>>)
             \o (IF "salvaging" \in DOMAIN recycling
                 THEN breakdown_edges(recycling.salvaging, "salvage_to", "salvage_level")
                 ELSE <<>>)

(***************************************************************************)
(* create_node: the optional descriptive keys are kept only when truthy.   *)
(***************************************************************************)
DescrKeys == {"wiki_url", "source_url", "infobox", "image_urls"}

create_node(name, node_type, kwargs) ==
    [name |-> name, node_type |-> node_type, edges |-> <<>>]
    @@ [k \in {d \in DescrKeys : Truthy(kwargs, d)} |-> kwargs[k]]

\* the keyword arguments key=record.get(key) for the given keys
get_all(record, keys) == [k \in (DOMAIN record \cap keys) |-> record[k]]

(***************************************************************************)
(* The node table: an insertion-ordered dict keyed by name.                *)
(***************************************************************************)
\* name in nodes
has_node(nodes_, name) == \E k \in 1..Len(nodes_) : nodes_[k].name = name

index_of(nodes_, name) == CHOOSE k \in 1..Len(nodes_) : nodes_[k].name = name

\* nodes[name]
node_at(nodes_, name) == nodes_[index_of(nodes_, name)]

\* nodes[name] = node: a new key goes last, an existing key keeps its place
set_node(nodes_, name, node) ==
    IF has_node(nodes_, name)
    THEN [nodes_ EXCEPT ![index_of(nodes_, name)] = node]
    ELSE Append(nodes_, node)

\* nodes[name]["edges"].extend(edges)
extend_edges(nodes_, name, edges) ==
    [nodes_ EXCEPT ![index_of(nodes_, name)].edges = @ \o edges]

\* mutant: the stub is made without looking the name up
ensure_stub_unchecked(nodes_, name) ==
    set_node(nodes_, name, create_node(name, "item", Empty))

\* if name not in nodes: nodes[name] = create_node(name=name, node_type="item")
ensure_stub(nodes_, name) ==
    IF has_node(nodes_, name) THEN nodes_
    ELSE set_node(nodes_, name, create_node(name, "item", Empty))

(***************************************************************************)
(* Trader pass: the dependency of a shop entry, its trader edge and the    *)
(* sold_by edge appended with it.                                          *)
(***************************************************************************)
shop_dependency(item) ==
    (IF "price" \in DOMAIN item \/ "currency" \in DOMAIN item
     THEN <<[type |-> "price"] @@ Arg(item, "price", "amount")
                               @@ Arg(item, "currency", "currency")>>
     ELSE <<>>)
    \o (IF "stock" \in DOMAIN item \/ "is_limited" \in DOMAIN item
        THEN <<[type |-> "stock"] @@ Arg(item, "stock", "value")
                                  @@ Arg(item, "is_limited", "is_limited")>>
        ELSE <<>>)
    \o (IF "ammo_count" \in DOMAIN item
        THEN <<[type |-> "ammo_count", value |-> item.ammo_count]>>
        ELSE <<>>)

trader_edge(item) ==
    create_edge(item.name, "out", "trader",
                [quantity |-> 1, dependency |-> shop_dependency(item)])

sold_by_edge(trader_name, item) ==
    create_edge(trader_name, "in", "sold_by",
                [quantity |-> 1, dependency |-> shop_dependency(item)])

get_shop(trader_data) == IF "shop" \in DOMAIN trader_data THEN trader_data.shop ELSE <<>>

(***************************************************************************)
(* Third pass: the if/elif chain that pairs each relation with its reverse *)
(* relation and direction (reverse_pairs); reverse_of is Empty when        *)
(* reverse_relation stays None.                                            *)
(***************************************************************************)
reverse_pairs ==
    [craft_from   |-> [relation |-> "craft_to",     direction |-> "out"],
     craft_to     |-> [relation |-> "craft_from",   direction |-> "in"],
     upgrade_from |-> [relation |-> "upgrade_to",   direction |-> "out"],
     upgrade_to   |-> [relation |-> "upgrade_from", direction |-> "in"],
     repair_from  |-> [relation |-> "repair_to",    direction |-> "out"],
     repair_to    |-> [relation |-> "repair_from",  direction |-> "in"],
     recycle_to   |-> [relation |-> "recycle_from", direction |-> "in"],
     recycle_from |-> [relation |-> "recycle_to",   direction |-> "out"],
     salvage_to   |-> [relation |-> "salvage_from", direction |-> "in"],
     salvage_from |-> [relation |-> "salvage_to",   direction |-> "out"]]

\* mutant: the craft_from branch is missing from the chain
reverse_of_without_craft_from(relation) ==
    IF relation \in DOMAIN reverse_pairs \ {"craft_from"}
    THEN reverse_pairs[relation] ELSE Empty

\* mutant: the recycle_to branch sets the direction of its own side
reverse_of_recycle_out(relation) ==
    IF relation \in DOMAIN reverse_pairs
    THEN [reverse_pairs[relation] EXCEPT
              !.direction = IF relation = "recycle_to" THEN "out" ELSE @]
    ELSE Empty

\* mutant: the chain also pairs trader with sold_by
reverse_of_with_trader(relation) ==
    IF relation = "trader" THEN [relation |-> "sold_by", direction |-> "in"]
    ELSE IF relation \in DOMAIN reverse_pairs THEN reverse_pairs[relation] ELSE Empty

reverse_of(relation) ==
    IF relation \in DOMAIN reverse_pairs THEN reverse_pairs[relation] ELSE Empty

\* the reverse edge built for one edge of node node_name
reverse_edge(node_name, edge) ==
    LET rev == reverse_of(edge.relation)
    IN  create_edge(node_name, rev.direction, rev.relation,
                    Arg(edge, "quantity", "quantity")
                    @@ Arg(edge, "dependency", "dependency")
                    @@ Arg(edge, "output_level", "input_level")
                    @@ Arg(edge, "input_level", "output_level"))

\* mutant: the reverse edges are applied during the scan, which reaches them in
\* turn and derives a reverse edge from each
collect_reverse_edges_rederiving(nodes_) ==
    LET first == Flatten([k \in 1..Len(nodes_) |->
                    LET node == nodes_[k]
                        paired == SelectSeq(node.edges,
                                            LAMBDA e : reverse_of(e.relation) /= Empty)
                    IN  [j \in 1..Len(paired) |->
                            [target_name |-> paired[j].name,
                             edge |-> reverse_edge(node.name, paired[j])]]])
    IN  first \o [x \in 1..Len(first) |->
                     [target_name |-> first[x].edge.name,
                      edge |-> reverse_edge(first[x].target_name, first[x].edge)]]

\* the (target_name, reverse_edge) pairs collected over list(nodes.items())
collect_reverse_edges(nodes_) ==
    Flatten([k \in 1..Len(nodes_) |->
        LET node == nodes_[k]
            paired == SelectSeq(node.edges, LAMBDA e : reverse_of(e.relation) /= Empty)
        IN  [j \in 1..Len(paired) |->
                [target_name |-> paired[j].name, edge |-> reverse_edge(node.name, paired[j])]]])

\* mutant: recycling and salvaging are processed first
item_edges_recycling_first(item_data, base_name) ==
    process_recycling(item_data, base_name)
    \o process_crafting(item_data, base_name)
    \o process_upgrades(item_data, base_name)
    \o process_repairs(item_data, base_name)

\* all forward edges of one item record, in the order of the second pass
item_edges(item_data, base_name) ==
    process_crafting(item_data, base_name)
    \o process_upgrades(item_data, base_name)
    \o process_repairs(item_data, base_name)
    \o process_recycling(item_data, base_name)

(***************************************************************************)
(* The input space: the records the two database files may hold.           *)
(***************************************************************************)
SeqsUpTo(S, n) == UNION {[1..k -> S] : k \in 0..n}

ItemNames == {"A", "B"}

\* what an item record holds besides its name: descriptive keys and relations
ItemBodies ==
    { [wiki_url |-> "w1", source_url |-> "s1", infobox |-> "i1", image_urls |-> "m1"],
      [wiki_url |-> "w2",
       crafting |-> << [workshop |-> "Workbench", blueprint_locked |-> TRUE,
                        result_level |-> "II",
                        recipe |-> << [item |-> "B", quantity |-> 2], [quantity |-> 1] >>] >>],
      [upgrades |-> << [input_level |-> "I", output_level |-> "II", workshop |-> "Bench",
                        upgrade_perks |-> <<"p1", "p2">>,
                        recipe |-> << [item |-> "C", quantity |-> 1] >>],
                       [input_level |-> "II",
                        recipe |-> << [item |-> "B", quantity |-> 3] >>] >>],
      [source_url |-> "s3",
       crafting |-> << [recipe |-> << [item |-> "T", quantity |-> 1] >>] >>,
       repairs |-> << [item_name |-> "A II", durability |-> 25,
                       recipe |-> << [item |-> "C", quantity |-> 2] >>] >>],
      [wiki_url |-> "w4", infobox |-> "i4",
       crafting |-> << [recipe |-> << [item |-> "C", quantity |-> 1] >>] >>,
       upgrades |-> << [input_level |-> "I", output_level |-> "II",
                        recipe |-> << [item |-> "A", quantity |-> 1] >>] >>,
       repairs |-> << [durability |-> 10,
                       recipe |-> << [item |-> "B", quantity |-> 1] >>] >>,
       recycling |-> [recycling |-> << [input |-> "A I",
                                        materials |-> << [item |-> "B", quantity |-> 1] >>] >>,
                      salvaging |-> << [materials |-> << [item |-> "C", quantity |-> 4] >>] >>]] }

\* the named records, and one record without a name
ItemRecords ==
    { [name |-> n] @@ body : n \in ItemNames, body \in ItemBodies }
    \cup { [wiki_url |-> "w1",
            crafting |-> << [recipe |-> << [item |-> "B", quantity |-> 1] >>] >>] }

TraderNames == {"T", "A"}

ShopEntries ==
    [sold |-> [name |-> "A", price |-> 500, currency |-> "Coins", stock |-> "3/3",
               is_limited |-> TRUE, ammo_count |-> 20],
     self |-> [name |-> "T"],
     ammo |-> [name |-> "A", ammo_count |-> 5],
     anon |-> [price |-> 10]]

\* what a trader record holds besides its name: descriptive keys and the shop
TraderBodies ==
    { [wiki_url |-> "tw1"],
      [wiki_url |-> "tw2", shop |-> << >>],
      [wiki_url |-> "tw3", source_url |-> "ts3", image_urls |-> "tm3",
       shop |-> << ShopEntries.sold >>],
      [shop |-> << ShopEntries.self >>],
      [source_url |-> "ts5", shop |-> << ShopEntries.self, ShopEntries.sold >>],
      [wiki_url |-> "tw6", shop |-> << ShopEntries.anon, ShopEntries.ammo >>] }

TraderRecords ==
    { [name |-> n] @@ body : n \in TraderNames, body \in TraderBodies }
    \cup { [wiki_url |-> "tw1", shop |-> << [name |-> "A"] >>] }

\* how many times main() is run on the same files
Runs == 2

\* items in the database file given to remove_duplicates_from_database
MaxItems == 3

\* lines in the names.txt given to remove_duplicates_from_names
MaxLines == 3

(***************************************************************************)
(* State.                                                                  *)
(***************************************************************************)
VARIABLES
    items_file,        \* data/items_database.json: [exists, json]
    traders_file,      \* data/traders_database.json: [exists, json]
    output_file,       \* data/items_relation.json: [exists, json]
    run,               \* which run of main() this is
    pc,                \* position in main() / build_relation_graph()
    status,            \* how the current run of main() ended, "running" before
    items_database,    \* main's items_database
    traders_database,  \* main's traders_database: [none] or [none, list]
    nodes,             \* build_relation_graph's node table
    i,                 \* index of the item record of the first / second pass
    t,                 \* index of the trader record
    s,                 \* index of the shop entry
    reverse_edges,     \* the buffered (target_name, reverse_edge) pairs
    r,                 \* index into reverse_edges
    origin,            \* history: per node, "forward" or "derived" for each edge
    real,              \* history: names whose node was created from a record
    db_input,          \* remove_duplicates: items_database.json: [exists, json]
    db_output,         \* remove_duplicates: items_database_deduplicated.json
    dedup_pc,          \* position in remove_duplicates_from_database
    dedup_run,         \* which application of remove_duplicates_from_database
    items,             \* its items, as loaded from the input file
    item_index,        \* index of the item of its loop
    seen_names,        \* its seen_names
    unique_items,      \* its unique_items
    duplicates,        \* its duplicates
    names_input,       \* remove_duplicates: names.txt: [exists, lines]
    names_output,      \* remove_duplicates: names_deduplicated.txt
    names_pc,          \* position in remove_duplicates_from_names / main
    line_index,        \* index of the line of its loop
    seen,              \* its seen
    unique_names,      \* its unique_names
    unique_count,      \* main's unique_count
    total_count,       \* main's total_count
    removed_names      \* main's removed_names

database_vars == << db_input, db_output, dedup_pc, dedup_run, items, item_index, seen_names,
                    unique_items, duplicates >>

names_vars == << names_input, names_output, names_pc, line_index, seen, unique_names,
                 unique_count, total_count, removed_names >>

dedup_vars == << database_vars, names_vars >>

main_vars == << items_file, traders_file, output_file, run, pc, status, items_database,
                traders_database, nodes, i, t, s, reverse_edges, r, origin, real >>

vars == << main_vars, dedup_vars >>

build_locals == << nodes, i, t, s, reverse_edges, r, origin, real >>
files == << items_file, traders_file >>

\* remove_duplicates_from_names is not run
NamesIdle ==
    /\ names_input = [exists |-> FALSE]
    /\ names_output = [exists |-> FALSE]
    /\ names_pc = "idle"
    /\ line_index = 0
    /\ seen = {}
    /\ unique_names = <<>>
    /\ unique_count = 0
    /\ total_count = 0
    /\ removed_names = 0

\* remove_duplicates_from_database is not run
DedupIdle ==
    /\ db_input = [exists |-> FALSE]
    /\ db_output = [exists |-> FALSE]
    /\ dedup_pc = "idle"
    /\ dedup_run = 0
    /\ items = <<>>
    /\ item_index = 0
    /\ seen_names = {}
    /\ unique_items = <<>>
    /\ duplicates = <<>>

Init ==
    /\ \E n \in 0..MaxRecords :
         /\ items_file \in {[exists |-> FALSE] : x \in {n} \cap {0}}
                \cup {[exists |-> TRUE, json |-> js] : js \in [1..n -> ItemRecords]}
         /\ traders_file \in {[exists |-> FALSE]}
                \cup {[exists |-> TRUE, json |-> js] :
                        js \in SeqsUpTo(TraderRecords, MaxRecords - n)}
    /\ output_file = [exists |-> FALSE]
    /\ run = 1
    /\ pc = "main"
    /\ status = "running"
    /\ items_database = <<>>
    /\ traders_database = [none |-> TRUE]
    /\ nodes = <<>>
    /\ i = 0 /\ t = 0 /\ s = 0 /\ r = 0
    /\ reverse_edges = <<>>
    /\ origin = <<>>
    /\ real = {}
    /\ DedupIdle
    /\ NamesIdle

(***************************************************************************)
(* main()                                                                  *)
(***************************************************************************)
\* mutant: the existence check is skipped
items_missing_unchecked(file) == FALSE

\* not items_file.exists()
items_missing(file) == ~file.exists

\* main, the check of the items file and the read that follows it
MainReadItems ==
    /\ pc = "main"
    /\ IF items_missing(items_file)
       THEN /\ status' = "items_not_found"
            /\ pc' = "exit"
            /\ UNCHANGED items_database
       ELSE \* open() raises FileNotFoundError on a file that does not exist
            /\ pc' = IF items_file.exists THEN "read_traders" ELSE "raised"
            /\ status' = IF items_file.exists THEN status ELSE "FileNotFoundError"
            /\ items_database' = IF items_file.exists THEN items_file.json ELSE items_database
    /\ UNCHANGED << dedup_vars, files, output_file, run, traders_database, build_locals >>

\* main, the optional read of the traders file
MainReadTraders ==
    /\ pc = "read_traders"
    /\ traders_database' = IF traders_file.exists
                           THEN [none |-> FALSE, list |-> traders_file.json]
                           ELSE [none |-> TRUE]
    /\ pc' = "call"
    /\ UNCHANGED << dedup_vars, files, output_file, run, status, items_database, build_locals >>

(***************************************************************************)
(* build_relation_graph()                                                  *)
(***************************************************************************)
\* mutant: the node table is module-level state that outlives a call
fresh_nodes_kept(previous) == previous

\* nodes = {} on entry; `previous` is the table of the previous call
fresh_nodes(previous) == <<>>

BuildEnter ==
    /\ pc = "call"
    /\ nodes' = fresh_nodes(nodes)
    /\ origin' = [k \in 1..Len(nodes') |-> IF k <= Len(origin) THEN origin[k] ELSE <<>>]
    /\ real' = {}
    /\ i' = 1 /\ t' = 0 /\ s' = 0 /\ r' = 0
    /\ reverse_edges' = <<>>
    /\ pc' = "pass1"
    /\ UNCHANGED << dedup_vars, files, output_file, run, status, items_database, traders_database >>

\* the edge history of a node table after nodes[name] = <new node>
origin_set(nodes_, origin_, name) ==
    IF has_node(nodes_, name)
    THEN [origin_ EXCEPT ![index_of(nodes_, name)] = <<>>]
    ELSE Append(origin_, <<>>)

\* the edge history after n edges of one kind are appended to nodes[name]
origin_extend(nodes_, origin_, name, kind, n) ==
    [origin_ EXCEPT ![index_of(nodes_, name)] = @ \o [k \in 1..n |-> kind]]

\* first pass, one item record: create the node unless the name is taken
Pass1Step ==
    /\ pc = "pass1"
    /\ i <= Len(items_database)
    /\ LET item_data == items_database[i]
           base_name == get_base_item_name(item_data)
       IN  IF base_name /= "" /\ ~has_node(nodes, base_name)
           THEN /\ nodes' = set_node(nodes, base_name,
                                     create_node(base_name, "item",
                                                 get_all(item_data, DescrKeys)))
                /\ origin' = origin_set(nodes, origin, base_name)
                /\ real' = real \cup {base_name}
           ELSE UNCHANGED << nodes, origin, real >>
    /\ i' = i + 1
    /\ UNCHANGED << dedup_vars, files, output_file, run, pc, status, items_database, traders_database,
                    t, s, reverse_edges, r >>

Pass1Exit ==
    /\ pc = "pass1"
    /\ i > Len(items_database)
    /\ pc' = "pass2"
    /\ i' = 1
    /\ UNCHANGED << dedup_vars, files, output_file, run, status, items_database, traders_database,
                    nodes, t, s, reverse_edges, r, origin, real >>

\* second pass, one item record: append its forward edges to its node
Pass2Step ==
    /\ pc = "pass2"
    /\ i <= Len(items_database)
    /\ LET item_data == items_database[i]
           base_name == get_base_item_name(item_data)
       IN  IF base_name /= "" /\ has_node(nodes, base_name)
           THEN LET edges == item_edges(item_data, base_name)
                IN  /\ nodes' = extend_edges(nodes, base_name, edges)
                    /\ origin' = origin_extend(nodes, origin, base_name, "forward", Len(edges))
           ELSE UNCHANGED << nodes, origin >>
    /\ i' = i + 1
    /\ UNCHANGED << dedup_vars, files, output_file, run, pc, status, items_database, traders_database,
                    t, s, reverse_edges, r, real >>

\* mutant: the trader pass is not guarded
traders_provided_unguarded(db) == TRUE

\* if traders_database:
traders_provided(db) == ~db.none /\ Len(db.list) > 0

\* end of the second pass and the test that guards the trader pass; iterating
\* None raises TypeError
Pass2Exit ==
    /\ pc = "pass2"
    /\ i > Len(items_database)
    /\ pc' = IF ~traders_provided(traders_database) THEN "collect"
             ELSE IF traders_database.none THEN "raised"
             ELSE "traders"
    /\ i' = 0
    /\ t' = 1
    /\ UNCHANGED << dedup_vars, files, output_file, run, status, items_database, traders_database,
                    nodes, s, reverse_edges, r, origin, real >>

\* trader pass, one trader record: (re)create its node
TraderStep ==
    /\ pc = "traders"
    /\ t <= Len(traders_database.list)
    /\ LET trader_data == traders_database.list[t]
           trader_name == get_base_item_name(trader_data)
       IN  IF trader_name = ""
           THEN /\ t' = t + 1
                /\ UNCHANGED << pc, s, nodes, origin, real >>
           ELSE /\ nodes' = set_node(nodes, trader_name,
                                     create_node(trader_name, "trader",
                                                 get_all(trader_data,
                                                         {"wiki_url", "source_url", "image_urls"})))
                /\ origin' = origin_set(nodes, origin, trader_name)
                /\ real' = real \cup {trader_name}
                /\ pc' = "shop"
                /\ s' = 1
                /\ UNCHANGED t
    /\ UNCHANGED << dedup_vars, files, output_file, run, status, items_database, traders_database,
                    i, reverse_edges, r >>

\* trader pass, one shop entry: the trader edge and the sold_by edge
ShopStep ==
    /\ pc = "shop"
    /\ LET trader_data == traders_database.list[t]
           trader_name == trader_data.name
           shop == get_shop(trader_data)
       IN  /\ s <= Len(shop)
           /\ LET item == shop[s]
                  item_name == get_base_item_name(item)
              IN  IF item_name = ""
                  THEN UNCHANGED << nodes, origin >>
                  ELSE LET nodes1 == extend_edges(nodes, trader_name, <<trader_edge(item)>>)
                           origin1 == origin_extend(nodes, origin, trader_name, "forward", 1)
                           nodes2 == ensure_stub(nodes1, item_name)
                           origin2 == IF has_node(nodes1, item_name) THEN origin1
                                      ELSE origin_set(nodes1, origin1, item_name)
                       IN  /\ nodes' = extend_edges(nodes2, item_name,
                                                    <<sold_by_edge(trader_name, item)>>)
                           /\ origin' = origin_extend(nodes2, origin2, item_name, "derived", 1)
    /\ s' = s + 1
    /\ UNCHANGED << dedup_vars, files, output_file, run, pc, status, items_database, traders_database,
                    i, t, reverse_edges, r, real >>

ShopExit ==
    /\ pc = "shop"
    /\ s > Len(get_shop(traders_database.list[t]))
    /\ pc' = "traders"
    /\ t' = t + 1
    /\ s' = 0
    /\ UNCHANGED << dedup_vars, files, output_file, run, status, items_database, traders_database,
                    nodes, i, reverse_edges, r, origin, real >>

TraderExit ==
    /\ pc = "traders"
    /\ t > Len(traders_database.list)
    /\ pc' = "collect"
    /\ UNCHANGED << dedup_vars, files, output_file, run, status, items_database, traders_database,
                    nodes, i, t, s, reverse_edges, r, origin, real >>

\* third pass, the scan: buffer every reverse edge
Collect ==
    /\ pc = "collect"
    /\ reverse_edges' = collect_reverse_edges(nodes)
    /\ r' = 1
    /\ pc' = "apply"
    /\ UNCHANGED << dedup_vars, files, output_file, run, status, items_database, traders_database,
                    nodes, i, t, s, origin, real >>

\* third pass, one buffered pair: create the missing node, append the edge
ApplyStep ==
    /\ pc = "apply"
    /\ r <= Len(reverse_edges)
    /\ LET target_name == reverse_edges[r].target_name
           nodes1 == ensure_stub(nodes, target_name)
           origin1 == IF has_node(nodes, target_name) THEN origin
                      ELSE origin_set(nodes, origin, target_name)
       IN  /\ nodes' = extend_edges(nodes1, target_name, <<reverse_edges[r].edge>>)
           /\ origin' = origin_extend(nodes1, origin1, target_name, "derived", 1)
    /\ r' = r + 1
    /\ UNCHANGED << dedup_vars, files, output_file, run, pc, status, items_database, traders_database,
                    i, t, s, reverse_edges, real >>

\* return nodes: at pc = "write" main holds the returned graph in nodes
Return ==
    /\ pc = "apply"
    /\ r > Len(reverse_edges)
    /\ pc' = "write"
    /\ UNCHANGED << dedup_vars, files, output_file, run, status, items_database, traders_database,
                    build_locals >>

(***************************************************************************)
(* main(), after the build: the graph is written, then the statistics are  *)
(* printed; the average divides by the number of nodes.                    *)
(***************************************************************************)
MainWrite ==
    /\ pc = "write"
    /\ output_file' = [exists |-> TRUE, json |-> nodes]
    /\ status' = IF Len(nodes) = 0 THEN "ZeroDivisionError" ELSE "ok"
    /\ pc' = "exit"
    /\ UNCHANGED << dedup_vars, files, run, items_database, traders_database, build_locals >>

\* main() is run again on the same files
MainAgain ==
    /\ pc = "exit"
    /\ run < Runs
    /\ run' = run + 1
    /\ pc' = "main"
    /\ status' = "running"
    /\ UNCHANGED << dedup_vars, files, output_file, items_database, traders_database, build_locals >>

Next ==
    \/ MainReadItems
    \/ MainReadTraders
    \/ BuildEnter
    \/ Pass1Step
    \/ Pass1Exit
    \/ Pass2Step
    \/ Pass2Exit
    \/ TraderStep
    \/ ShopStep
    \/ ShopExit
    \/ TraderExit
    \/ Collect
    \/ ApplyStep
    \/ Return
    \/ MainWrite
    \/ MainAgain

Spec == Init /\ [][Next]_vars

(***************************************************************************)
(* script/remove_duplicates.py: remove_duplicates_from_database reads the  *)
(* items of db_input, keeps an item when its name is truthy and not yet    *)
(* seen, records the name of an item whose name was seen, and writes the   *)
(* kept items to db_output.                                                *)
(***************************************************************************)
\* the items the database file may hold: two names, each with two different
\* bodies, an item without a name and an item whose name is empty
DedupItems ==
    { [name |-> "A", wiki_url |-> "w1"], [name |-> "A", wiki_url |-> "w2"],
      [name |-> "B", wiki_url |-> "w1"], [name |-> "B"],
      [wiki_url |-> "w1"], [name |-> "", wiki_url |-> "w2"] }

\* build_relation_graph.py is not run
MainIdle ==
    /\ items_file = [exists |-> FALSE]
    /\ traders_file = [exists |-> FALSE]
    /\ output_file = [exists |-> FALSE]
    /\ run = 0
    /\ pc = "idle"
    /\ status = "idle"
    /\ items_database = <<>>
    /\ traders_database = [none |-> TRUE]
    /\ nodes = <<>>
    /\ i = 0 /\ t = 0 /\ s = 0 /\ r = 0
    /\ reverse_edges = <<>>
    /\ origin = <<>>
    /\ real = {}

DedupInit ==
    /\ MainIdle
    /\ NamesIdle
    /\ db_input \in {[exists |-> FALSE]}
           \cup {[exists |-> TRUE, json |-> js] : js \in SeqsUpTo(DedupItems, MaxItems)}
    /\ db_output = [exists |-> FALSE]
    /\ dedup_pc = "open"
    /\ dedup_run = 1
    /\ items = <<>>
    /\ item_index = 0
    /\ seen_names = {}
    /\ unique_items = <<>>
    /\ duplicates = <<>>

\* item.get('name', '')
get_name(item) == IF "name" \in DOMAIN item THEN item.name ELSE ""

\* mutant: the name is not looked up in seen_names
keeps_item_unseen_unchecked(name, seen_) == name /= ""

\* if name and name not in seen_names:
keeps_item(name, seen_) == name /= "" /\ name \notin seen_

\* the file the function is given as input_file: the database at first, then
\* the file the first application wrote
input_file == IF dedup_run = 1 THEN db_input ELSE db_output

\* items = json.load(f); open() raises FileNotFoundError on a missing file
DedupLoad ==
    /\ dedup_pc = "open"
    /\ dedup_pc' = IF input_file.exists THEN "loop" ELSE "raised"
    /\ items' = IF input_file.exists THEN input_file.json ELSE items
    /\ item_index' = 1
    /\ seen_names' = {}
    /\ unique_items' = <<>>
    /\ duplicates' = <<>>
    /\ UNCHANGED << main_vars, names_vars, db_input, db_output, dedup_run >>

\* one item of the loop
DedupStep ==
    /\ dedup_pc = "loop"
    /\ item_index <= Len(items)
    /\ LET item == items[item_index]
           name == get_name(item)
       IN  IF keeps_item(name, seen_names)
           THEN /\ seen_names' = seen_names \cup {name}
                /\ unique_items' = Append(unique_items, item)
                /\ UNCHANGED duplicates
           ELSE IF name \in seen_names
           THEN /\ duplicates' = Append(duplicates, name)
                /\ UNCHANGED << seen_names, unique_items >>
           ELSE UNCHANGED << seen_names, unique_items, duplicates >>
    /\ item_index' = item_index + 1
    /\ UNCHANGED << main_vars, names_vars, db_input, db_output, dedup_pc, dedup_run, items >>

\* json.dump(unique_items, f); return len(unique_items), duplicates
DedupWrite ==
    /\ dedup_pc = "loop"
    /\ item_index > Len(items)
    /\ db_output' = [exists |-> TRUE, json |-> unique_items]
    /\ dedup_pc' = "done"
    /\ UNCHANGED << main_vars, names_vars, db_input, dedup_run, items, item_index, seen_names,
                    unique_items, duplicates >>

\* remove_duplicates_from_database is applied to its own output
DedupAgain ==
    /\ dedup_pc = "done"
    /\ dedup_run = 1
    /\ dedup_run' = 2
    /\ dedup_pc' = "open"
    /\ UNCHANGED << main_vars, names_vars, db_input, db_output, items, item_index, seen_names,
                    unique_items, duplicates >>

DedupNext ==
    \/ DedupLoad
    \/ DedupStep
    \/ DedupWrite
    \/ DedupAgain

DedupSpec == DedupInit /\ [][DedupNext]_vars

(***************************************************************************)
(* script/remove_duplicates.py: remove_duplicates_from_names reads the     *)
(* lines of names.txt, strips each, skips the empty ones, keeps a name not *)
(* yet seen, writes the kept names and returns two counts; main() takes    *)
(* them as unique_count and total_count and reports their difference.  A   *)
(* line is the sequence of its characters.                                 *)
(***************************************************************************)
Whitespace == {" ", "\t", "\n"}

\* the lines names.txt may hold: a name, the same name padded, another name, an
\* empty line, a blank line and a last line without a newline
NameLines ==
    { <<"A", "\n">>, <<" ", "A", " ", "\n">>, <<"B", "\n">>, <<"\n">>, <<" ", "\n">>, <<"A">> }

RECURSIVE lstrip(_)
lstrip(line) ==
    IF line /= <<>> /\ Head(line) \in Whitespace THEN lstrip(Tail(line)) ELSE line

RECURSIVE rstrip(_)
rstrip(line) ==
    IF line /= <<>> /\ line[Len(line)] \in Whitespace
    THEN rstrip(SubSeq(line, 1, Len(line) - 1)) ELSE line

\* line.strip()
strip(line) == rstrip(lstrip(line))

NamesInit ==
    /\ MainIdle
    /\ DedupIdle
    /\ names_input \in {[exists |-> FALSE]}
           \cup {[exists |-> TRUE, lines |-> ls] : ls \in SeqsUpTo(NameLines, MaxLines)}
    /\ names_output = [exists |-> FALSE]
    /\ names_pc = "open"
    /\ line_index = 0
    /\ seen = {}
    /\ unique_names = <<>>
    /\ unique_count = 0
    /\ total_count = 0
    /\ removed_names = 0

\* seen = set(); unique_names = []; open() raises FileNotFoundError on a
\* missing file
NamesOpen ==
    /\ names_pc = "open"
    /\ names_pc' = IF names_input.exists THEN "loop" ELSE "raised"
    /\ line_index' = 1
    /\ seen' = {}
    /\ unique_names' = <<>>
    /\ UNCHANGED << main_vars, database_vars, names_input, names_output,
                    unique_count, total_count, removed_names >>

\* one line of the loop
NamesStep ==
    /\ names_pc = "loop"
    /\ line_index <= Len(names_input.lines)
    /\ LET name == strip(names_input.lines[line_index])
       IN  IF name /= <<>> /\ name \notin seen
           THEN /\ seen' = seen \cup {name}
                /\ unique_names' = Append(unique_names, name)
           ELSE UNCHANGED << seen, unique_names >>
    /\ line_index' = line_index + 1
    /\ UNCHANGED << main_vars, database_vars, names_input, names_output, names_pc,
                    unique_count, total_count, removed_names >>

\* the names are written, one per line; return len(unique_names), len(seen);
\* main: unique_count, total_count = ...; removed_names = total_count - unique_count
NamesReturn ==
    /\ names_pc = "loop"
    /\ line_index > Len(names_input.lines)
    /\ names_output' = [exists |-> TRUE,
                        lines |-> [k \in 1..Len(unique_names) |-> unique_names[k] \o <<"\n">>]]
    /\ unique_count' = Len(unique_names)
    /\ total_count' = Cardinality(seen)
    /\ removed_names' = Cardinality(seen) - Len(unique_names)
    /\ names_pc' = "done"
    /\ UNCHANGED << main_vars, database_vars, names_input, line_index, seen, unique_names >>

NamesNext ==
    \/ NamesOpen
    \/ NamesStep
    \/ NamesReturn

NamesSpec == NamesInit /\ [][NamesNext]_vars

(***************************************************************************)
(* Vocabulary of the properties.                                           *)
(***************************************************************************)
\* the relation taxonomy of the specification: inverse and owner direction
inverse_relation(relation) ==
    CASE relation = "craft_from"   -> "craft_to"
      [] relation = "craft_to"     -> "craft_from"
      [] relation = "upgrade_from" -> "upgrade_to"
      [] relation = "upgrade_to"   -> "upgrade_from"
      [] relation = "repair_from"  -> "repair_to"
      [] relation = "repair_to"    -> "repair_from"
      [] relation = "recycle_to"   -> "recycle_from"
      [] relation = "recycle_from" -> "recycle_to"
      [] relation = "salvage_to"   -> "salvage_from"
      [] relation = "salvage_from" -> "salvage_to"
      [] relation = "trader"       -> "sold_by"
      [] relation = "sold_by"      -> "trader"

taxonomy_direction(relation) ==
    IF relation \in {"craft_from", "upgrade_from", "repair_from", "recycle_from",
                     "salvage_from", "sold_by"}
    THEN "in" ELSE "out"

opposite(direction) == IF direction = "in" THEN "out" ELSE "in"

\* e.get(ke) == f.get(kf)
SameOpt(e, ke, f, kf) == Arg(e, ke, "v") = Arg(f, kf, "v")

\* f is the inverse of edge e, e being owned by the node named owner
IsInverseOf(f, e, owner) ==
    /\ f.name = owner
    /\ f.relation = inverse_relation(e.relation)
    /\ f.direction = opposite(e.direction)
    /\ SameOpt(f, "quantity", e, "quantity")
    /\ SameOpt(f, "dependency", e, "dependency")
    /\ SameOpt(f, "input_level", e, "output_level")
    /\ SameOpt(f, "output_level", e, "input_level")

\* every edge of graph g has its inverse on the node it points to
Closed(g) ==
    \A a \in 1..Len(g) : \A j \in 1..Len(g[a].edges) :
        LET e == g[a].edges[j]
        IN  /\ has_node(g, e.name)
            /\ \E m \in 1..Len(node_at(g, e.name).edges) :
                   IsInverseOf(node_at(g, e.name).edges[m], e, g[a].name)

\* the relations present somewhere in graph g
RelationsIn(g) ==
    UNION { { g[a].edges[j].relation : j \in 1..Len(g[a].edges) } : a \in 1..Len(g) }

\* build_relation_graph has just returned; nodes is the graph it returned
Returned == pc = "write"

(***************************************************************************)
(* C1. Bidirectional closure: in every graph build_relation_graph returns, *)
(* every edge of node A to B has, on node B, the edge to A with the        *)
(* inverse relation, the opposite direction, the same quantity and         *)
(* dependency and the levels swapped, for any records.                     *)
(* Violated: a trader record replaces the node of its name, dropping the   *)
(* edges it held, while the edges pointing back to them stay.              *)
(***************************************************************************)
C1_BidirectionalClosure ==
    Returned => Closed(nodes)

(***************************************************************************)
(* C2. No orphan targets: in every graph build_relation_graph returns,     *)
(* the target name of every edge is the name of a node of that graph.      *)
(***************************************************************************)
C2_NoOrphanTargets ==
    Returned =>
        \A a \in 1..Len(nodes) : \A j \in 1..Len(nodes[a].edges) :
            has_node(nodes, nodes[a].edges[j].name)

\* a returned graph in which "C", named by no record, is the target of a forward
\* edge and the trader pass made a stub for a listed item no record defines
C2_Witness ==
    /\ Returned
    /\ has_node(nodes, "C")
    /\ has_node(nodes, "T")
    /\ has_node(nodes, "A")
    /\ items_database /= <<>>
    /\ \A k \in 1..Len(items_database) : get_base_item_name(items_database[k]) = "B"
    /\ "sold_by" \in RelationsIn(nodes)

(***************************************************************************)
(* C3. Relation pairing: in every returned graph, every edge's direction   *)
(* is the one the taxonomy gives its relation: in for the _from relations  *)
(* and sold_by, out for the _to relations and trader.                      *)
(***************************************************************************)
C3_RelationPairing ==
    Returned =>
        \A a \in 1..Len(nodes) : \A j \in 1..Len(nodes[a].edges) :
            nodes[a].edges[j].direction = taxonomy_direction(nodes[a].edges[j].relation)

\* a returned graph holding a forward and a derived edge of every pair
C3_Witness ==
    /\ Returned
    /\ {"craft_from", "craft_to", "upgrade_from", "upgrade_to", "repair_from", "repair_to",
        "recycle_to", "recycle_from", "salvage_to", "salvage_from", "trader", "sold_by"}
           \subseteq RelationsIn(nodes)

(***************************************************************************)
(* C4. First writer wins: when two input records (item or trader) share a  *)
(* name, the node of that name in the returned graph carries the           *)
(* descriptive attributes of the first of them processed (item records are *)
(* processed before trader records).                                       *)
(* Violated: a trader record replaces the node an earlier record made.     *)
(***************************************************************************)
\* the records in processing order
records_processed ==
    items_database \o (IF traders_database.none THEN <<>> ELSE traders_database.list)

\* the descriptive attributes a record gives / a node carries
record_descr(record) == [k \in {d \in DescrKeys : Truthy(record, d)} |-> record[k]]

node_descr(node) == [k \in (DOMAIN node \cap DescrKeys) |-> node[k]]

C4_FirstWriterWins ==
    Returned => \A a \in 1..Len(nodes) :
        LET node == nodes[a]
            same == SelectSeq(records_processed,
                              LAMBDA rec : get_base_item_name(rec) = node.name)
        IN  Len(same) >= 2 => node_descr(node) = record_descr(same[1])

(***************************************************************************)
(* C5. node_type is stable: once a node has been created from a real       *)
(* record, no later step of the build gives the node of that name another  *)
(* node_type.                                                              *)
(* Violated: a trader record named like an item record turns the item node *)
(* into a trader node.                                                     *)
(***************************************************************************)
C5_NodeTypeStable ==
    [][\A k \in 1..Len(nodes) :
          (nodes[k].name \in real /\ has_node(nodes', nodes[k].name))
              => node_at(nodes', nodes[k].name).node_type = nodes[k].node_type]_vars

(***************************************************************************)
(* C6. Idempotence: when main is run again on the same records, the graph  *)
(* the second call of build_relation_graph returns is the graph the first  *)
(* call returned (which main wrote to the output file): the same nodes in  *)
(* the same order with the same edge sequences; nothing is doubled.        *)
(***************************************************************************)
C6_Idempotent ==
    (Returned /\ run >= 2) => nodes = output_file.json

\* the second call has returned a graph with forward, derived and trade edges
C6_Witness ==
    /\ Returned
    /\ run = 2
    /\ {"craft_from", "craft_to", "trader", "sold_by"} \subseteq RelationsIn(nodes)

RECURSIVE RelationCount(_, _)
RelationCount(g, relation) ==
    IF Len(g) = 0 THEN 0
    ELSE Len(SelectSeq(Head(g).edges, LAMBDA e : e.relation = relation))
         + RelationCount(Tail(g), relation)

synthesizer_rank(relation) ==
    CASE relation = "craft_from" -> 1
      [] relation \in {"upgrade_from", "upgrade_to"} -> 2
      [] relation = "repair_from" -> 3
      [] relation = "recycle_to" -> 4
      [] relation = "salvage_to" -> 5
      [] OTHER -> 6

\* forward edges before derived edges, on the node at position k
ForwardFirst(k) ==
    \A a \in 1..Len(origin[k]) : \A b \in (a + 1)..Len(origin[k]) :
        ~(origin[k][a] = "derived" /\ origin[k][b] = "forward")

\* the forward edges of the node at position k are at most as many runs of
\* synthesizer order as there are item records of that name
SynthesizerOrder(k) ==
    LET idx == SelectSeq([j \in 1..Len(origin[k]) |-> j],
                         LAMBDA j : origin[k][j] = "forward")
        rnk == [j \in 1..Len(idx) |-> synthesizer_rank(nodes[k].edges[idx[j]].relation)]
        descents == Cardinality({j \in 1..(Len(rnk) - 1) : rnk[j] > rnk[j + 1]})
        sources == Cardinality({x \in 1..Len(items_database) :
                                   get_base_item_name(items_database[x]) = nodes[k].name})
    IN  descents = 0 \/ descents < sources

pass_of(k, j) ==
    IF nodes[k].edges[j].relation \in {"trader", "sold_by"} THEN 2
    ELSE IF origin[k][j] = "forward" THEN 1
    ELSE 3

C9_TradersAbsent ==
    (~traders_file.exists \/ traders_file.json = <<>>)
        => /\ pc \notin {"raised", "traders", "shop"}
           /\ Returned =>
                 /\ \A a \in 1..Len(nodes) : nodes[a].node_type /= "trader"
                 /\ RelationsIn(nodes) \cap {"trader", "sold_by"} = {}

\* the traders file is absent and the build has returned a graph with edges
C9_Witness ==
    /\ ~traders_file.exists
    /\ Returned
    /\ traders_database.none
    /\ "craft_to" \in RelationsIn(nodes)

(***************************************************************************)
(* C10. Items absent: main ends at once with the "not found" error; it     *)
(* reads no trader records, never calls build_relation_graph and writes    *)
(* no output file.                                                         *)
(***************************************************************************)
C10_ItemsAbsentIsFatal ==
    ~items_file.exists
        => /\ pc = "main" \/ (pc = "exit" /\ status = "items_not_found")
           /\ traders_database = [none |-> TRUE]
           /\ nodes = <<>>
           /\ ~output_file.exists

\* main has ended on the missing items file although a traders file is there
C10_Witness ==
    /\ ~items_file.exists
    /\ traders_file.exists /\ traders_file.json /= <<>>
    /\ pc = "exit"
    /\ status = "items_not_found"

(***************************************************************************)
(* Vocabulary of the synthesis claims.                                     *)
(***************************************************************************)
\* the edges of the node named name in graph g (none when g has no such node)
EdgesOf(g, name) == IF has_node(g, name) THEN node_at(g, name).edges ELSE <<>>

\* the node named name in graph g owns an edge equal to e
Owns(g, name, e) == \E j \in 1..Len(EdgesOf(g, name)) : EdgesOf(g, name)[j] = e

\* the node named name in graph g owns an edge to target with the given
\* direction and relation and the quantity and dependency of edge e
OwnsBack(g, name, target, direction, relation, e) ==
    \E j \in 1..Len(EdgesOf(g, name)) :
        LET f == EdgesOf(g, name)[j]
        IN  /\ f.name = target
            /\ f.direction = direction
            /\ f.relation = relation
            /\ SameOpt(f, "quantity", e, "quantity")
            /\ SameOpt(f, "dependency", e, "dependency")

\* an edge as a record: the optional keys are present only when given
EdgeWith(name, direction, relation, quantity, dependency, levels) ==
    [name |-> name, direction |-> direction, relation |-> relation]
    @@ quantity
    @@ (IF dependency /= <<>> THEN [dependency |-> dependency] ELSE Empty)
    @@ levels

\* the material lines of a recipe that have a name and a quantity
NamedLines(lines) ==
    SelectSeq(lines, LAMBDA m : Truthy(m, "item") /\ "quantity" \in DOMAIN m)

\* the named item records of the run
NamedItems == SelectSeq(items_database, LAMBDA rec : get_base_item_name(rec) /= "")

\* d[k], or the empty sequence when the key is absent
ListAt(d, k) == IF k \in DOMAIN d THEN d[k] ELSE <<>>

(***************************************************************************)
(* C11. Craft synthesis: in the returned graph, for every crafting recipe  *)
(* of an item record A and every material line (B, q) of it, node A owns   *)
(* the edge {B, in, craft_from, q} whose dependency is the workshop tag,   *)
(* the blueprint tag and the result_level tag, each when the recipe has    *)
(* it, in this order, and whose output_level is the result level; node B   *)
(* exists and owns the craft_to edge to A, direction out, with the same    *)
(* quantity and dependency.                                                *)
(* Violated: a trader record named A replaces node A after the item pass   *)
(* and the craft_from edges are lost (and with them the craft_to edges).   *)
(***************************************************************************)
craft_tags(craft_recipe) ==
    (IF "workshop" \in DOMAIN craft_recipe
     THEN <<[type |-> "workshop", name |-> craft_recipe.workshop]>> ELSE <<>>)
    \o (IF TruthyFlag(craft_recipe, "blueprint_locked")
        THEN <<[type |-> "blueprint", name |-> "required"]>> ELSE <<>>)
    \o (IF Truthy(craft_recipe, "result_level")
        THEN <<[type |-> "result_level", name |-> craft_recipe.result_level]>> ELSE <<>>)

CraftSynthesized(g, A, craft_recipe, line) ==
    LET e == EdgeWith(line.item, "in", "craft_from", [quantity |-> line.quantity],
                      craft_tags(craft_recipe),
                      IF Truthy(craft_recipe, "result_level")
                      THEN [output_level |-> craft_recipe.result_level] ELSE Empty)
    IN  /\ Owns(g, A, e)
        /\ OwnsBack(g, line.item, A, "out", "craft_to", e)

C11_CraftSynthesis ==
    Returned =>
        \A k \in 1..Len(NamedItems) :
            \A c \in 1..Len(ListAt(NamedItems[k], "crafting")) :
                LET craft_recipe == NamedItems[k].crafting[c]
                    lines == NamedLines(ListAt(craft_recipe, "recipe"))
                IN  \A m \in 1..Len(lines) :
                        CraftSynthesized(nodes, NamedItems[k].name, craft_recipe, lines[m])

(***************************************************************************)
(* C12. Upgrade chain: in the returned graph, for every upgrade of an item *)
(* record A that has input level L1 and output level L2 and every material *)
(* line C of it, node A owns an upgrade_from edge to C with input_level L1 *)
(* and output_level L2, node A owns the self-loop upgrade_to edge (target  *)
(* A, direction out) with input_level L1 and output_level L2, and node C   *)
(* owns an upgrade_to edge (direction out) to A with input_level L2 and    *)
(* output_level L1.                                                        *)
(* Violated: a trader record named A replaces node A after the item pass   *)
(* and every upgrade edge of A is lost.                                    *)
(***************************************************************************)
\* the node named name in graph g owns an edge with these fields
OwnsLevelled(g, name, target, direction, relation, input_level, output_level) ==
    \E j \in 1..Len(EdgesOf(g, name)) :
        LET f == EdgesOf(g, name)[j]
        IN  /\ f.name = target
            /\ f.direction = direction
            /\ f.relation = relation
            /\ Arg(f, "input_level", "v") = [v |-> input_level]
            /\ Arg(f, "output_level", "v") = [v |-> output_level]

UpgradeChained(g, A, upgrade, C) ==
    LET L1 == upgrade.input_level
        L2 == upgrade.output_level
    IN  /\ OwnsLevelled(g, A, C, "in", "upgrade_from", L1, L2)
        /\ OwnsLevelled(g, A, A, "out", "upgrade_to", L1, L2)
        /\ OwnsLevelled(g, C, A, "out", "upgrade_to", L2, L1)

C12_UpgradeChain ==
    Returned =>
        \A k \in 1..Len(NamedItems) :
            \A u \in 1..Len(ListAt(NamedItems[k], "upgrades")) :
                LET upgrade == NamedItems[k].upgrades[u]
                    lines == SelectSeq(ListAt(upgrade, "recipe"), LAMBDA m : Truthy(m, "item"))
                IN  (Truthy(upgrade, "input_level") /\ Truthy(upgrade, "output_level"))
                        => \A m \in 1..Len(lines) :
                               UpgradeChained(nodes, NamedItems[k].name, upgrade, lines[m].item)

(***************************************************************************)
(* C13. Trade synthesis: in the returned graph, for every trader record T  *)
(* and every shop entry of it with name I, node T has node_type trader and *)
(* owns the edge {I, out, trader, quantity 1} whose dependency is the      *)
(* price tag (amount, currency), the stock tag (value, is_limited) and the *)
(* ammo_count tag, each when the entry has the fields, in this order; node *)
(* I owns the edge {T, in, sold_by, quantity 1} with the same dependency.  *)
(* Violated: a later trader record of the same name replaces node T and    *)
(* its trader edges are lost; a later trader record named I replaces node  *)
(* I and its sold_by edge is lost.                                         *)
(***************************************************************************)
\* the named trader records of the run
NamedTraders ==
    SelectSeq(IF traders_database.none THEN <<>> ELSE traders_database.list,
              LAMBDA rec : get_base_item_name(rec) /= "")

trade_tags(entry) ==
    (IF {"price", "currency"} \cap DOMAIN entry /= {}
     THEN <<[type |-> "price"]
            @@ (IF "price" \in DOMAIN entry THEN [amount |-> entry.price] ELSE Empty)
            @@ (IF "currency" \in DOMAIN entry THEN [currency |-> entry.currency] ELSE Empty)>>
     ELSE <<>>)
    \o (IF {"stock", "is_limited"} \cap DOMAIN entry /= {}
        THEN <<[type |-> "stock"]
               @@ (IF "stock" \in DOMAIN entry THEN [value |-> entry.stock] ELSE Empty)
               @@ (IF "is_limited" \in DOMAIN entry
                   THEN [is_limited |-> entry.is_limited] ELSE Empty)>>
        ELSE <<>>)
    \o (IF "ammo_count" \in DOMAIN entry
        THEN <<[type |-> "ammo_count", value |-> entry.ammo_count]>> ELSE <<>>)

TradeSynthesized(g, T, entry) ==
    /\ has_node(g, T)
    /\ node_at(g, T).node_type = "trader"
    /\ Owns(g, T, EdgeWith(entry.name, "out", "trader", [quantity |-> 1],
                           trade_tags(entry), Empty))
    /\ Owns(g, entry.name, EdgeWith(T, "in", "sold_by", [quantity |-> 1],
                                    trade_tags(entry), Empty))

C13_TradeSynthesis ==
    Returned =>
        \A k \in 1..Len(NamedTraders) :
            LET entries == SelectSeq(ListAt(NamedTraders[k], "shop"),
                                     LAMBDA entry : get_base_item_name(entry) /= "")
            IN  \A x \in 1..Len(entries) :
                    TradeSynthesized(nodes, NamedTraders[k].name, entries[x])

(***************************************************************************)
(* C14. remove_duplicates_from_database keeps the first occurrence of each *)
(* name: when it returns, the items written are the first item of each     *)
(* distinct name of the input, in input order, no two of them share a      *)
(* name, the duplicates list has one entry for every later occurrence of a *)
(* name, in input order, and the second application, to the output of the  *)
(* first, writes its input unchanged and reports no duplicate.  (A name is *)
(* a non-empty name: an item without one is neither kept nor reported.)    *)
(***************************************************************************)
\* the positions of items whose name occurs for the first time / occurred before
FirstPositions(list) ==
    SelectSeq([k \in 1..Len(list) |-> k],
              LAMBDA k : /\ get_name(list[k]) /= ""
                         /\ \A j \in 1..(k - 1) : get_name(list[j]) /= get_name(list[k]))

LaterPositions(list) ==
    SelectSeq([k \in 1..Len(list) |-> k],
              LAMBDA k : /\ get_name(list[k]) /= ""
                         /\ \E j \in 1..(k - 1) : get_name(list[j]) = get_name(list[k]))

\* the first item of each distinct name of a list, in the order of the list
FirstOccurrences(list) ==
    [k \in 1..Len(FirstPositions(list)) |-> list[FirstPositions(list)[k]]]

C14_KeepsFirstOccurrence ==
    dedup_pc = "done" =>
        LET out == db_output.json
            later == LaterPositions(items)
        IN  /\ out = FirstOccurrences(items)
            /\ \A a \in 1..Len(out) : \A b \in 1..Len(out) :
                   a /= b => get_name(out[a]) /= get_name(out[b])
            /\ duplicates = [k \in 1..Len(later) |-> get_name(items[later[k]])]
            /\ dedup_run = 2 => /\ out = items
                                /\ out = FirstOccurrences(db_input.json)
                                /\ duplicates = <<>>

\* the second application has returned; the first one kept the first "A" of
\* three items, dropped the second and an item without a name
C14_Witness ==
    /\ dedup_pc = "done"
    /\ dedup_run = 2
    /\ db_input.json = << [name |-> "A", wiki_url |-> "w2"], [wiki_url |-> "w1"],
                          [name |-> "A", wiki_url |-> "w1"] >>
    /\ db_output.json = << [name |-> "A", wiki_url |-> "w2"] >>

(***************************************************************************)
(* C15. An upgrade definition that lacks its input level or its output     *)
(* level is skipped entirely: every upgrade_from and upgrade_to edge of    *)
(* the returned graph comes from an upgrade definition that has both       *)
(* levels.  A forward edge of node A is the material edge or the self-loop *)
(* of such an upgrade of a record named A, with its levels; a derived edge *)
(* of node C pointing to A is the reverse of one, with the levels swapped. *)
(* Violated: the material edges of an upgrade are emitted whether or not   *)
(* the levels are there; only the self-loop is skipped.                    *)
(***************************************************************************)
\* upgrade has both levels, they are the given ones, and it has an edge to target:
\* a material line naming target, or (self) the self-loop of owner
CompleteUpgradeTo(upgrade, owner, target, self, input_level, output_level) ==
    /\ Truthy(upgrade, "input_level") /\ Truthy(upgrade, "output_level")
    /\ input_level = [v |-> upgrade.input_level]
    /\ output_level = [v |-> upgrade.output_level]
    /\ IF self THEN target = owner
       ELSE \E m \in 1..Len(ListAt(upgrade, "recipe")) :
                Truthy(upgrade.recipe[m], "item") /\ upgrade.recipe[m].item = target

\* some item record named owner has such an upgrade
FromCompleteUpgrade(owner, target, self, input_level, output_level) ==
    \E k \in 1..Len(NamedItems) :
        /\ NamedItems[k].name = owner
        /\ \E u \in 1..Len(ListAt(NamedItems[k], "upgrades")) :
               CompleteUpgradeTo(NamedItems[k].upgrades[u], owner, target, self,
                                 input_level, output_level)

C15_IncompleteUpgradeSkipped ==
    Returned =>
        \A k \in 1..Len(nodes) : \A j \in 1..Len(nodes[k].edges) :
            LET e == nodes[k].edges[j]
                lin == Arg(e, "input_level", "v")
                lout == Arg(e, "output_level", "v")
            IN  e.relation \in {"upgrade_from", "upgrade_to"} =>
                    IF origin[k][j] = "forward"
                    THEN FromCompleteUpgrade(nodes[k].name, e.name,
                                             e.relation = "upgrade_to", lin, lout)
                    ELSE FromCompleteUpgrade(e.name, nodes[k].name,
                                             e.relation = "upgrade_from", lout, lin)

(***************************************************************************)
(* C16. For each upgrade definition that has both levels, process_upgrades *)
(* emits, right after the material edges of that upgrade, exactly one      *)
(* upgrade_to edge to the entity's own name with direction out; that edge  *)
(* carries the perks tag exactly when the upgrade lists perks, and no      *)
(* material edge carries one.  In the returned graph an edge with a perks  *)
(* tag is such a self-loop or the reverse derived from it, never a         *)
(* material edge or the reverse of a material edge.                        *)
(***************************************************************************)
HasPerks(e) ==
    "dependency" \in DOMAIN e /\ \E d \in 1..Len(e.dependency) : e.dependency[d].type = "perks"

\* the names of the material lines of an upgrade that have one
UpgradeMaterials(upgrade) ==
    LET named == SelectSeq(ListAt(upgrade, "recipe"), LAMBDA m : Truthy(m, "item"))
    IN  [m \in 1..Len(named) |-> named[m].item]

BothLevels(upgrade) == Truthy(upgrade, "input_level") /\ Truthy(upgrade, "output_level")

\* how many edges the first n upgrades of a list account for
RECURSIVE EdgesBefore(_, _)
EdgesBefore(upgrades, n) ==
    IF n = 0 THEN 0
    ELSE EdgesBefore(upgrades, n - 1) + Len(UpgradeMaterials(upgrades[n]))
         + (IF BothLevels(upgrades[n]) THEN 1 ELSE 0)

\* edges is, upgrade by upgrade, the material edges and then the self-loop
SelfLoopAfterMaterials(edges, upgrades, name) ==
    /\ Len(edges) = EdgesBefore(upgrades, Len(upgrades))
    /\ \A u \in 1..Len(upgrades) :
          LET base == EdgesBefore(upgrades, u - 1)
              mats == UpgradeMaterials(upgrades[u])
          IN  /\ \A m \in 1..Len(mats) :
                     /\ edges[base + m].relation = "upgrade_from"
                     /\ edges[base + m].name = mats[m]
                     /\ ~HasPerks(edges[base + m])
              /\ BothLevels(upgrades[u]) =>
                     LET loop == edges[base + Len(mats) + 1]
                     IN  /\ loop.relation = "upgrade_to"
                         /\ loop.name = name
                         /\ loop.direction = "out"
                         /\ HasPerks(loop) <=> "upgrade_perks" \in DOMAIN upgrades[u]
    /\ Cardinality({j \in 1..Len(edges) : edges[j].relation = "upgrade_to"})
           = Cardinality({u \in 1..Len(upgrades) : BothLevels(upgrades[u])})

C16_SelfLoopCarriesPerks ==
    /\ (pc = "pass2" /\ i <= Len(items_database))
           => LET item_data == items_database[i]
                  name == get_base_item_name(item_data)
              IN  name /= "" =>
                      SelfLoopAfterMaterials(process_upgrades(item_data, name),
                                             ListAt(item_data, "upgrades"), name)
    /\ Returned =>
           \A k \in 1..Len(nodes) : \A j \in 1..Len(nodes[k].edges) :
               LET e == nodes[k].edges[j]
               IN  HasPerks(e) =>
                       /\ e.name = nodes[k].name
                       /\ \/ origin[k][j] = "forward" /\ e.relation = "upgrade_to"
                          \/ origin[k][j] = "derived" /\ e.relation = "upgrade_from"

\* a returned graph in which an upgrade with perks, a workshop and a material
\* gave node A a material edge with a dependency and the self-loop with perks,
\* and the material's node the reverse edge
C16_Witness ==
    /\ Returned
    /\ \E k \in 1..Len(nodes) :
          /\ \E j \in 1..Len(nodes[k].edges) :
                 /\ nodes[k].edges[j].relation = "upgrade_to"
                 /\ origin[k][j] = "forward"
                 /\ HasPerks(nodes[k].edges[j])
          /\ \E j \in 1..Len(nodes[k].edges) :
                 /\ nodes[k].edges[j].relation = "upgrade_from"
                 /\ origin[k][j] = "forward"
                 /\ "dependency" \in DOMAIN nodes[k].edges[j]
                 /\ OwnsBack(nodes, nodes[k].edges[j].name, nodes[k].name, "out",
                             "upgrade_to", nodes[k].edges[j])

(***************************************************************************)
(* C17. No double derivation: once the resolver's scan has ended, the      *)
(* buffer holds exactly one reverse edge per forward craft_from,           *)
(* upgrade_from, upgrade_to, repair_from, recycle_to and salvage_to edge   *)
(* of the node table, each the reverse of such a forward edge and none the *)
(* reverse of a derived edge; the resolver has appended as many edges as   *)
(* it has applied buffer entries, and when the build returns it has        *)
(* appended exactly as many edges as there are such forward edges.         *)
(***************************************************************************)
\* the relations the synthesizers emit
ForwardRelations ==
    {"craft_from", "upgrade_from", "upgrade_to", "repair_from", "recycle_to", "salvage_to"}

\* how many edges of the first k nodes the resolver appended: the derived edges
\* that are not the trader pass's sold_by edges
RECURSIVE ResolverAppended(_)
ResolverAppended(k) ==
    IF k = 0 THEN 0
    ELSE ResolverAppended(k - 1)
         + Cardinality({j \in 1..Len(nodes[k].edges) :
                           /\ origin[k][j] = "derived"
                           /\ nodes[k].edges[j].relation /= "sold_by"})

RECURSIVE ForwardPairedCount(_)
ForwardPairedCount(k) ==
    IF k = 0 THEN 0
    ELSE ForwardPairedCount(k - 1)
         + Cardinality({j \in 1..Len(nodes[k].edges) :
                           /\ origin[k][j] = "forward"
                           /\ nodes[k].edges[j].relation \in ForwardRelations})

C17_NoDoubleDerivation ==
    pc \in {"apply", "write"} =>
        /\ Len(reverse_edges) = ForwardPairedCount(Len(nodes))
        /\ ResolverAppended(Len(nodes)) = r - 1
        /\ Returned => ResolverAppended(Len(nodes)) = ForwardPairedCount(Len(nodes))
        /\ \A x \in 1..Len(reverse_edges) :
               \E k \in 1..Len(nodes) : \E j \in 1..Len(nodes[k].edges) :
                   /\ origin[k][j] = "forward"
                   /\ nodes[k].edges[j].relation \in ForwardRelations
                   /\ nodes[k].edges[j].name = reverse_edges[x].target_name
                   /\ IsInverseOf(reverse_edges[x].edge, nodes[k].edges[j], nodes[k].name)

\* the build has returned a graph whose resolver applied several reverse edges,
\* one of them to a node that already held a sold_by edge of the trader pass
C17_Witness ==
    /\ Returned
    /\ Len(reverse_edges) >= 2
    /\ \E k \in 1..Len(nodes) :
          {"sold_by", "craft_to"} \subseteq RelationsIn(<<nodes[k]>>)

(***************************************************************************)
(* C18. Stub nodes: a step that applies a reverse edge (a shop entry's     *)
(* sold_by edge, a buffered edge of the resolver) fabricates a node only   *)
(* for a name that has no node: every node there is keeps its name, type,  *)
(* attributes and edges, and a node the step adds is {name, node_type      *)
(* item} with no wiki_url, source_url or attributes and with the reverse   *)
(* edge as its only edge.  In the returned graph every node made from no   *)
(* record is such a stub and every edge it owns is a derived reverse edge. *)
(***************************************************************************)
\* node has nothing but a name, the type item and edges
IsBareItem(node) ==
    /\ DOMAIN node = {"name", "node_type", "edges"}
    /\ node.node_type = "item"

\* edges is before, possibly with more edges after it
Extends(edges, before) ==
    /\ Len(edges) >= Len(before)
    /\ \A j \in 1..Len(before) : edges[j] = before[j]

C18_StubNodes ==
    [][/\ pc \in {"shop", "apply"} =>
            /\ Len(nodes') >= Len(nodes)
            /\ \A k \in 1..Len(nodes) :
                   /\ nodes'[k] = [nodes[k] EXCEPT !.edges = nodes'[k].edges]
                   /\ Extends(nodes'[k].edges, nodes[k].edges)
            /\ \A k \in (Len(nodes) + 1)..Len(nodes') :
                   /\ ~has_node(nodes, nodes'[k].name)
                   /\ IsBareItem(nodes'[k])
                   /\ Len(nodes'[k].edges) = 1
                   /\ origin'[k] = <<"derived">>
       /\ pc' = "write" =>
            \A k \in 1..Len(nodes') :
                nodes'[k].name \notin real' =>
                    /\ IsBareItem(nodes'[k])
                    /\ nodes'[k].edges /= <<>>
                    /\ \A j \in 1..Len(nodes'[k].edges) : origin'[k][j] = "derived"]_vars

\* a returned graph with a stub made by the trader pass, holding a sold_by edge,
\* and a stub made by the resolver, next to a node made from an item record that
\* was the target of a reverse edge
C18_Witness ==
    /\ Returned
    /\ has_node(nodes, "A") /\ "A" \notin real
    /\ "sold_by" \in RelationsIn(<<node_at(nodes, "A")>>)
    /\ has_node(nodes, "C") /\ "C" \notin real
    /\ "B" \in real
    /\ \E j \in 1..Len(node_at(nodes, "B").edges) :
           origin[index_of(nodes, "B")][j] = "derived"

(***************************************************************************)
(* C19. An entry missing its name contributes nothing and raises no error: *)
(* the build never raises; a step over an item record, trader record or    *)
(* shop entry without a name leaves the node table as it is and moves on   *)
(* to the next one; the step of the second pass over a named record        *)
(* appends one material edge for each material line that has a name, in    *)
(* the order of the record, and none for a line without one; no node and   *)
(* no edge of the node table has an empty name.                            *)
(***************************************************************************)
\* the material lines under key `lines` of the entries of a list, in order
LinesOf(entries, lines) == Flatten([x \in 1..Len(entries) |-> ListAt(entries[x], lines)])

\* the names of the material lines of an item record that have one, in the
\* order the synthesizers read them
MaterialNames(item_data) ==
    LET all == LinesOf(ListAt(item_data, "crafting"), "recipe")
               \o LinesOf(ListAt(item_data, "upgrades"), "recipe")
               \o LinesOf(ListAt(item_data, "repairs"), "recipe")
               \o LinesOf(ListAt(ListAt(item_data, "recycling"), "recycling"), "materials")
               \o LinesOf(ListAt(ListAt(item_data, "recycling"), "salvaging"), "materials")
        named == SelectSeq(all, LAMBDA m : Truthy(m, "item"))
    IN  [m \in 1..Len(named) |-> named[m].item]

\* the targets of the material edges among edges: all but the upgrade self-loops
MaterialTargets(edges) ==
    LET mats == SelectSeq(edges, LAMBDA e : e.relation /= "upgrade_to")
    IN  [m \in 1..Len(mats) |-> mats[m].name]

C19_NamelessContributesNothing ==
    [][/\ pc' /= "raised"
       /\ \A k \in 1..Len(nodes') :
              /\ nodes'[k].name /= ""
              /\ \A j \in 1..Len(nodes'[k].edges) : nodes'[k].edges[j].name /= ""
       /\ (pc \in {"pass1", "pass2"} /\ i <= Len(items_database))
              => LET item_data == items_database[i]
                 IN  IF get_base_item_name(item_data) = ""
                     THEN nodes' = nodes /\ i' = i + 1
                     ELSE pc = "pass2" =>
                              LET before == EdgesOf(nodes, item_data.name)
                                  after == EdgesOf(nodes', item_data.name)
                              IN  /\ Extends(after, before)
                                  /\ MaterialTargets(SubSeq(after, Len(before) + 1, Len(after)))
                                         = MaterialNames(item_data)
       /\ (pc = "traders" /\ t <= Len(traders_database.list))
              => (get_base_item_name(traders_database.list[t]) = ""
                      => nodes' = nodes /\ t' = t + 1 /\ pc' = "traders")
       /\ (pc = "shop" /\ s <= Len(get_shop(traders_database.list[t])))
              => IF get_base_item_name(get_shop(traders_database.list[t])[s]) = ""
                 THEN nodes' = nodes /\ s' = s + 1 /\ pc' = "shop"
                 ELSE nodes' /= nodes /\ s' = s + 1]_vars

\* the build has returned; an item record had a material line without a name
\* next to one with a name, a trader had a shop entry without a name before one
\* with a name, and the named ones gave their edges
C19_Witness ==
    /\ Returned
    /\ \E k \in 1..Len(items_database) :
          /\ "name" \in DOMAIN items_database[k]
          /\ \E c \in 1..Len(ListAt(items_database[k], "crafting")) :
                 \E m \in 1..Len(ListAt(items_database[k].crafting[c], "recipe")) :
                     "item" \notin DOMAIN items_database[k].crafting[c].recipe[m]
    /\ ~traders_database.none
    /\ \E k \in 1..Len(traders_database.list) :
          /\ "name" \in DOMAIN traders_database.list[k]
          /\ \E x \in 1..Len(get_shop(traders_database.list[k])) :
                 "name" \notin DOMAIN get_shop(traders_database.list[k])[x]
    /\ {"craft_from", "craft_to", "trader", "sold_by"} \subseteq RelationsIn(nodes)

(***************************************************************************)
(* C20. Edge sequences only grow during a build: no step of the item pass, *)
(* the trader pass or the reverse pass removes or replaces an edge         *)
(* attached to a name; after the step the name still has a node and its    *)
(* edge sequence begins with the edges it had before the step.             *)
(* Violated: the trader pass assigns a fresh node, with no edges, to the   *)
(* name of a trader record that already has a node.                        *)
(***************************************************************************)
\* the step keeps every name's node and the edges attached to it
KeepsEdges ==
    \A k \in 1..Len(nodes) :
        /\ has_node(nodes', nodes[k].name)
        /\ Extends(EdgesOf(nodes', nodes[k].name), nodes[k].edges)

C20_EdgesOnlyGrow ==
    [][(pc \in {"pass1", "pass2", "traders", "shop", "collect", "apply"}) => KeepsEdges]_vars

(***************************************************************************)
(* C21. When remove_duplicates_from_names has returned to main, the first  *)
(* count is the number of unique names written, the second is the number   *)
(* of non-empty input lines, and the 'Removed' figure main reports (total  *)
(* minus unique) is the number of duplicate lines dropped from the input.  *)
(* Violated: the second count is len(seen), the number of distinct names,  *)
(* so the figure is 0 whatever was dropped.                                *)
(***************************************************************************)
\* the input lines that are not empty once stripped
NonEmptyLines == SelectSeq(names_input.lines, LAMBDA line : strip(line) /= <<>>)

C21_RemovedCountsDuplicates ==
    names_pc = "done" =>
        /\ unique_count = Len(names_output.lines)
        /\ total_count = Len(NonEmptyLines)
        /\ removed_names = Len(NonEmptyLines) - Len(names_output.lines)

====
